---- MODULE Spec2Model ----
(***************************************************************************)
(* The PublicClientApplication facade of react-native-msal                 *)
(* (src/src/publicClientApplication.native.ts) over the RNMSAL native      *)
(* module binding (src/src/nativeModule.ts).                               *)
(*                                                                         *)
(* Every facade method is an async function.  The part of its body before  *)
(* the first await runs synchronously in the step that calls it (the guard *)
(* and the invocation of the native method); the part after the await runs *)
(* in a later step, when the native promise settles.  A call is therefore  *)
(* one "..._Call" action followed, if it reached the native module, by one *)
(* settle action.  The native module is an external collaborator: what it  *)
(* answers is a nondeterministic choice among the answers its type allows. *)
(***************************************************************************)
EXTENDS Integers, Sequences, FiniteSets, TLC

(* ------------------------------ bounds --------------------------------- *)
\* number of facade method calls made in one behaviour
MaxCalls == 3

(* --------------------------- JavaScript values -------------------------- *)
\* A string is a sequence of fragments; concatenation is \o.
JSUndefined == [t |-> "undefined"]
JSBoolean(b) == [t |-> "boolean", v |-> b]
JSString(s) == [t |-> "string", v |-> s]
JSObject == [t |-> "object"]
JSNull == [t |-> "null"]
JSError(msg) == [t |-> "Error", message |-> msg]
JSArray(s) == [t |-> "array", v |-> s]

\* sub occurs in str as a contiguous run of fragments
Contains(str, sub) ==
    \E i \in 0..(Len(str) - Len(sub)) :
        \A j \in 1..Len(sub) : str[i + j] = sub[j]

\* String(value) for a value that is not an Error
String(value) ==
    CASE value.t = "string" -> value.v
      [] value.t = "undefined" -> <<"undefined">>
      [] value.t = "boolean" -> IF value.v THEN <<"true">> ELSE <<"false">>
      [] value.t = "object" -> <<"[object Object]">>
      [] OTHER -> <<"[object Object]">>

(* ------------------------------ domain ---------------------------------- *)
\* the facade instance `this`
This == [t |-> "PublicClientApplication"]

Account(id) == [t |-> "MSALAccount", identifier |-> id]
Accounts == {Account("u1"), Account("u2")}
AccountIdentifiers == {"u1"}

Configs == {[t |-> "MSALConfiguration", clientId |-> "abc"],
            [t |-> "MSALConfiguration", clientId |-> "xyz"]}

InteractiveParams == {[t |-> "MSALInteractiveParams", scopes |-> s] : s \in {"read", "write"}}
SilentParams == {[t |-> "MSALSilentParams", account |-> Account("u1"), scopes |-> "read"]}
SignoutParams == {[t |-> "MSALSignoutParams", account |-> a, signoutFromBrowser |-> TRUE] : a \in Accounts}

TokenResult == [t |-> "MSALResult", accessToken |-> "tok1", account |-> Account("u1")]
\* the result of a silent acquisition carries a token of its own
RefreshedResult == [t |-> "MSALResult", accessToken |-> "tok2", account |-> Account("u1")]

\* Platform.OS of the running application (the platforms the native module exists on)
Platforms == {"ios", "android"}

(* --------------------------- the native module -------------------------- *)
Ok(v) == [ok |-> TRUE, value |-> v]
Fail(e) == [ok |-> FALSE, value |-> e]
Pending == [ok |-> FALSE, value |-> [t |-> "pending"]]

\* what a rejected native promise can carry
ProviderError == JSError(<<"provider failure">>)
SetupFailures == {JSError(<<"bad configuration">>), JSString(<<"boom">>), JSObject}

\* The answers the RNMSALNativeModule type allows for each method.
NativeAnswers(method) ==
    CASE method = "createPublicClientApplication" ->
            {Ok(JSUndefined)} \cup {Fail(e) : e \in SetupFailures}
      [] method = "acquireToken" ->
            {Ok(TokenResult), Ok(JSUndefined), Fail(ProviderError)}
      [] method = "acquireTokenSilent" ->
            {Ok(RefreshedResult), Ok(JSUndefined), Fail(ProviderError)}
      [] method = "getAccounts" ->
            {Ok(JSArray(<<>>)), Ok(JSArray(<<Account("u2"), Account("u1")>>)), Fail(ProviderError)}
      [] method = "getAccount" ->
            {Ok(Account("u1")), Ok(JSUndefined), Fail(ProviderError)}
      [] method \in {"removeAccount", "signout"} ->
            {Ok(JSBoolean(TRUE)), Ok(JSBoolean(FALSE)), Fail(ProviderError)}

(* ------------------------------- state ---------------------------------- *)
VARIABLES
    isInitialized,  \* PublicClientApplication.isInitialized
    config,         \* PublicClientApplication.config (constructor argument)
    platformOS,     \* Platform.OS
    calls,          \* the facade method calls made so far, in call order
    nativeLog,      \* the RNMSAL method invocations made so far, in order
    moduleLoad,     \* the evaluation of nativeModule.ts and the construction of the facade
    auth,           \* the React state of the example AuthProvider
    svc,            \* the example msalService wrapper calls, svc[c] being the caller of calls[c]
    tasks,          \* the AuthProvider handler invocations and direct msalService calls
    api,            \* the request() calls of the example useProtectedApi hook
    storage         \* the example secureStorage service and the store and clock under it

vars == <<isInitialized, config, platformOS, calls, nativeLog, moduleLoad, auth, svc, tasks, api, storage>>

\* the facade calls made by the mount effect of the AuthProvider
MountCalls == IF tasks = <<>> THEN 0 ELSE tasks[1].made

\* MaxCalls bounds the calls the application makes on its own initiative
CanCall == Len(calls) - MountCalls < MaxCalls

\* nativeModule.ts evaluated with the binding present and the facade constructed
ModuleLoaded ==
    [binding |-> "present", status |-> "loaded", error |-> JSUndefined,
     lookups |-> 1, facade |-> TRUE]

\* useState(false), useState(true), useState(null), useState(null)
\* no request() call made yet; an empty store at time 0, no secureStorage call made yet
ApiInitial == <<>>
StorageInitial ==
    [item |-> JSNull, now |-> 0, ops |-> 0, cleared |-> FALSE,
     last |-> [op |-> "none", ret |-> JSUndefined, read |-> JSNull]]

AuthInitial ==
    [isInitialized |-> FALSE, isLoading |-> TRUE, user |-> JSNull, accessToken |-> JSNull]

\* calls that are suspended at their await
Awaiting == {c \in DOMAIN calls : calls[c].pc = "awaiting"}

\* the RNMSAL invocations made by call c
NativeCallsOf(c) == {i \in DOMAIN nativeLog : nativeLog[i].caller = c}

\* the init() calls that are suspended at their await
InitsInFlight == {c \in Awaiting : calls[c].op = "init"}

\* a call as it is made; initsInFlight remembers the init() calls it overlaps
NewCall(op, arg) ==
    [op |-> op, arg |-> arg, pc |-> "awaiting", outcome |-> "pending",
     value |-> JSUndefined, initsInFlight |-> InitsInFlight]

Settled(call, outcome, value) ==
    [call EXCEPT !.pc = "done", !.outcome = outcome, !.value = value]

Invoke(method, arg) ==
    nativeLog' = Append(nativeLog,
        [method |-> method, arg |-> arg, caller |-> Len(calls) + 1, answer |-> Pending])

Answered(c, answer) ==
    nativeLog' = [i \in DOMAIN nativeLog |->
        IF nativeLog[i].caller = c THEN [nativeLog[i] EXCEPT !.answer = answer]
        ELSE nativeLog[i]]

Init ==
    /\ isInitialized = FALSE
    /\ config \in Configs
    /\ platformOS \in Platforms
    /\ calls = <<>>
    /\ nativeLog = <<>>
    /\ moduleLoad = ModuleLoaded
    /\ auth = AuthInitial
    /\ svc = <<>>
    /\ tasks = <<>>
    /\ api = ApiInitial
    /\ storage = StorageInitial

(* --------------------------------- init --------------------------------- *)
InitErrorPrefix == <<"Failed to initialize PublicClientApplication: ">>
InitErrorSuffix == <<". ", "Ensure the native MSAL module is properly linked and configured.">>

\* variant: the catch block rethrows what it caught
InitError_Rethrow(error) == error

\* the error thrown by the catch block of init()
InitError(error) ==
    JSError(InitErrorPrefix
            \o (IF error.t = "Error" THEN error.message ELSE String(error))
            \o InitErrorSuffix)

\* variant: a call made while a setup is in flight shares that setup
Init_Call_Memoized ==
    /\ CanCall
    /\ IF ~isInitialized
       THEN /\ IF InitsInFlight # {}
               THEN UNCHANGED nativeLog
               ELSE Invoke("createPublicClientApplication", config)
            /\ calls' = Append(calls, NewCall("init", JSUndefined))
       ELSE /\ calls' = Append(calls, Settled(NewCall("init", JSUndefined), "resolved", This))
            /\ UNCHANGED nativeLog
    /\ UNCHANGED <<isInitialized, config, platformOS>>

\* variant: the flag is not tested
Init_Call_Unguarded ==
    /\ CanCall
    /\ Invoke("createPublicClientApplication", config)
    /\ calls' = Append(calls, NewCall("init", JSUndefined))
    /\ UNCHANGED <<isInitialized, config, platformOS>>

\* variant: the flag is set before the await
Init_Call_FlagBeforeAwait ==
    /\ CanCall
    /\ IF ~isInitialized
       THEN /\ Invoke("createPublicClientApplication", config)
            /\ calls' = Append(calls, NewCall("init", JSUndefined))
            /\ isInitialized' = TRUE
       ELSE /\ calls' = Append(calls, Settled(NewCall("init", JSUndefined), "resolved", This))
            /\ UNCHANGED <<nativeLog, isInitialized>>
    /\ UNCHANGED <<config, platformOS>>

\* variant: the setup is given a built-in configuration
Init_Call_DefaultConfig ==
    /\ CanCall
    /\ IF ~isInitialized
       THEN /\ Invoke("createPublicClientApplication",
                      [t |-> "MSALConfiguration", clientId |-> "abc"])
            /\ calls' = Append(calls, NewCall("init", JSUndefined))
       ELSE /\ calls' = Append(calls, Settled(NewCall("init", JSUndefined), "resolved", This))
            /\ UNCHANGED nativeLog
    /\ UNCHANGED <<isInitialized, config, platformOS>>

\* variant: init() on an initialized facade waits instead of returning
Init_Call_NoOpPends ==
    /\ CanCall
    /\ IF ~isInitialized
       THEN /\ Invoke("createPublicClientApplication", config)
            /\ calls' = Append(calls, NewCall("init", JSUndefined))
       ELSE /\ calls' = Append(calls, NewCall("init", JSUndefined))
            /\ UNCHANGED nativeLog
    /\ UNCHANGED <<isInitialized, config, platformOS>>

\* init() up to its await, or to its return when already initialized
Init_Call ==
    /\ CanCall
    /\ IF ~isInitialized
       THEN /\ Invoke("createPublicClientApplication", config)
            /\ calls' = Append(calls, NewCall("init", JSUndefined))
       ELSE /\ calls' = Append(calls, Settled(NewCall("init", JSUndefined), "resolved", This))
            /\ UNCHANGED nativeLog
    /\ UNCHANGED <<isInitialized, config, platformOS>>

\* variant: init() returns what the await produced
Init_Resolved_ReturnsAwaited(c) ==
    /\ c \in Awaiting
    /\ calls[c].op = "init"
    /\ Ok(JSUndefined) \in NativeAnswers("createPublicClientApplication")
    /\ Answered(c, Ok(JSUndefined))
    /\ isInitialized' = TRUE
    /\ calls' = [calls EXCEPT ![c] = Settled(@, "resolved", JSUndefined)]
    /\ UNCHANGED <<config, platformOS>>

\* variant: the flag is set only by the last init() call in flight
Init_Resolved_OnlyIfAlone(c) ==
    /\ c \in Awaiting
    /\ calls[c].op = "init"
    /\ Ok(JSUndefined) \in NativeAnswers("createPublicClientApplication")
    /\ Answered(c, Ok(JSUndefined))
    /\ isInitialized' = (isInitialized \/ InitsInFlight = {c})
    /\ calls' = [calls EXCEPT ![c] = Settled(@, "resolved", This)]
    /\ UNCHANGED <<config, platformOS>>

\* the await of init() returns
Init_Resolved(c) ==
    /\ c \in Awaiting
    /\ calls[c].op = "init"
    /\ Ok(JSUndefined) \in NativeAnswers("createPublicClientApplication")
    /\ Answered(c, Ok(JSUndefined))
    /\ isInitialized' = TRUE
    /\ calls' = [calls EXCEPT ![c] = Settled(@, "resolved", This)]
    /\ UNCHANGED <<config, platformOS>>

\* variant: the flag is set in a finally block
Init_Rejected_Finally(c, error) ==
    /\ c \in Awaiting
    /\ calls[c].op = "init"
    /\ Fail(error) \in NativeAnswers("createPublicClientApplication")
    /\ Answered(c, Fail(error))
    /\ isInitialized' = TRUE
    /\ calls' = [calls EXCEPT ![c] = Settled(@, "rejected", InitError(error))]
    /\ UNCHANGED <<config, platformOS>>

\* variant: the catch block clears the flag
Init_Rejected_ClearsFlag(c, error) ==
    /\ c \in Awaiting
    /\ calls[c].op = "init"
    /\ Fail(error) \in NativeAnswers("createPublicClientApplication")
    /\ Answered(c, Fail(error))
    /\ isInitialized' = FALSE
    /\ calls' = [calls EXCEPT ![c] = Settled(@, "rejected", InitError(error))]
    /\ UNCHANGED <<config, platformOS>>

\* the await of init() throws
Init_Rejected(c, error) ==
    /\ c \in Awaiting
    /\ calls[c].op = "init"
    /\ Fail(error) \in NativeAnswers("createPublicClientApplication")
    /\ Answered(c, Fail(error))
    /\ calls' = [calls EXCEPT ![c] = Settled(@, "rejected", InitError(error))]
    /\ UNCHANGED <<isInitialized, config, platformOS>>

(* -------------------------- guarded operations -------------------------- *)
\* the error validateIsInitialized() throws (message without its backquotes)
NotInitializedError ==
    JSError(<<"PublicClientApplication is not initialized. ",
              "You must call the init method before any other method.">>)

\* variant: the guard never throws
ValidateIsInitializedThrows_Never(flag) == FALSE

\* validateIsInitialized(): TRUE when it throws
\* variant: the guard lets a call through while a setup is in flight
ValidateIsInitializedThrows_UnlessInFlight(flag) == ~flag /\ InitsInFlight = {}

ValidateIsInitializedThrows(flag) == ~flag

\* a guarded method up to its await: the guard, then the native invocation
Guarded_Call(op, arg, method, nativeArg) ==
    /\ CanCall
    /\ IF ValidateIsInitializedThrows(isInitialized)
       THEN /\ calls' = Append(calls, Settled(NewCall(op, arg), "rejected", NotInitializedError))
            /\ UNCHANGED nativeLog
       ELSE /\ Invoke(method, nativeArg)
            /\ calls' = Append(calls, NewCall(op, arg))
    /\ UNCHANGED <<isInitialized, config, platformOS>>

AcquireToken_Call(params) ==
    Guarded_Call("acquireToken", params, "acquireToken", params)

AcquireTokenSilent_Call(params) ==
    Guarded_Call("acquireTokenSilent", params, "acquireTokenSilent", params)

GetAccounts_Call ==
    Guarded_Call("getAccounts", JSUndefined, "getAccounts", JSUndefined)

GetAccount_Call(accountIdentifier) ==
    Guarded_Call("getAccount", JSString(<<accountIdentifier>>),
                 "getAccount", JSString(<<accountIdentifier>>))

\* variant: only the identifier of the account is passed on
RemoveAccount_Call_PassesIdentifier(account) ==
    Guarded_Call("removeAccount", account, "removeAccount", JSString(<<account.identifier>>))

RemoveAccount_Call(account) ==
    Guarded_Call("removeAccount", account, "removeAccount", account)

\* Platform.select(spec): the entry for the running platform, else default
PlatformSelect(os, spec) ==
    IF os \in DOMAIN spec THEN spec[os] ELSE spec["default"]

\* variant: signout on every platform
SignOutTarget_AlwaysSignout(os, params) ==
    [method |-> "signout", arg |-> params]

\* the native invocation signOut(params) makes on platform os
SignOutTarget(os, params) ==
    PlatformSelect(os,
        [ios |-> [method |-> "signout", arg |-> params],
         default |-> [method |-> "removeAccount", arg |-> params.account]])

SignOut_Call(params) ==
    Guarded_Call("signOut", params,
                 SignOutTarget(platformOS, params).method,
                 SignOutTarget(platformOS, params).arg)

\* variant: an empty result is turned into a failure
Forwarded_RejectsEmpty(call, answer) ==
    IF answer.ok /\ answer.value # JSUndefined
    THEN Settled(call, "resolved", answer.value)
    ELSE Settled(call, "rejected", IF answer.ok THEN ProviderError ELSE answer.value)

\* variant: a failure is swallowed and the empty result returned
Forwarded_SwallowsFailure(call, answer) ==
    IF answer.ok THEN Settled(call, "resolved", answer.value)
    ELSE Settled(call, "resolved", JSUndefined)

\* variant: an account list is returned in reverse order
Forwarded_ReversesList(call, answer) ==
    IF answer.ok
    THEN Settled(call, "resolved",
                 IF answer.value.t = "array"
                 THEN JSArray([i \in DOMAIN answer.value.v |->
                                 answer.value.v[Len(answer.value.v) + 1 - i]])
                 ELSE answer.value)
    ELSE Settled(call, "rejected", answer.value)

\* what `return await <native promise>` makes of the native answer
Forwarded(call, answer) ==
    IF answer.ok THEN Settled(call, "resolved", answer.value)
    ELSE Settled(call, "rejected", answer.value)

\* variant: a provider failure takes the facade out of Ready
Forward_Settle_FailureResets(c, answer) ==
    /\ c \in Awaiting
    /\ calls[c].op # "init"
    /\ \E i \in NativeCallsOf(c) : answer \in NativeAnswers(nativeLog[i].method)
    /\ Answered(c, answer)
    /\ calls' = [calls EXCEPT ![c] = Forwarded(@, answer)]
    /\ isInitialized' = (isInitialized /\ answer.ok)
    /\ UNCHANGED <<config, platformOS>>

\* the await of a guarded method returns or throws
Forward_Settle(c, answer) ==
    /\ c \in Awaiting
    /\ calls[c].op # "init"
    /\ \E i \in NativeCallsOf(c) : answer \in NativeAnswers(nativeLog[i].method)
    /\ Answered(c, answer)
    /\ calls' = [calls EXCEPT ![c] = Forwarded(@, answer)]
    /\ UNCHANGED <<isInitialized, config, platformOS>>

(* ------------------------------ behaviour ------------------------------- *)
AllAnswers ==
    UNION {NativeAnswers(m) : m \in {"acquireToken", "acquireTokenSilent", "getAccounts",
                                     "getAccount", "removeAccount", "signout"}}

\* the facade used on its own: the module load and the example application stay as they are
Idle == UNCHANGED <<moduleLoad, auth, svc, tasks, api, storage>>

Next ==
    \/ Init_Call /\ Idle
    \/ \E c \in DOMAIN calls : Init_Resolved(c) /\ Idle
    \/ \E c \in DOMAIN calls : \E e \in SetupFailures : Init_Rejected(c, e) /\ Idle
    \/ \E p \in InteractiveParams : AcquireToken_Call(p) /\ Idle
    \/ \E p \in SilentParams : AcquireTokenSilent_Call(p) /\ Idle
    \/ GetAccounts_Call /\ Idle
    \/ \E id \in AccountIdentifiers : GetAccount_Call(id) /\ Idle
    \/ \E a \in Accounts : RemoveAccount_Call(a) /\ Idle
    \/ \E p \in SignoutParams : SignOut_Call(p) /\ Idle
    \/ \E c \in DOMAIN calls : \E a \in AllAnswers : Forward_Settle(c, a) /\ Idle

Spec == Init /\ [][Next]_vars

\* the facade's operations with one argument value each: whether a call
\* completes does not depend on its arguments
NextFair ==
    \/ Init_Call /\ Idle
    \/ \E c \in DOMAIN calls : Init_Resolved(c) /\ Idle
    \/ \E c \in DOMAIN calls : \E e \in SetupFailures : Init_Rejected(c, e) /\ Idle
    \/ AcquireToken_Call([t |-> "MSALInteractiveParams", scopes |-> "read"]) /\ Idle
    \/ \E p \in SilentParams : AcquireTokenSilent_Call(p) /\ Idle
    \/ GetAccounts_Call /\ Idle
    \/ \E id \in AccountIdentifiers : GetAccount_Call(id) /\ Idle
    \/ RemoveAccount_Call(Account("u1")) /\ Idle
    \/ SignOut_Call([t |-> "MSALSignoutParams", account |-> Account("u1"),
                    signoutFromBrowser |-> TRUE]) /\ Idle
    \/ \E c \in DOMAIN calls : \E a \in AllAnswers : Forward_Settle(c, a) /\ Idle

\* the provider answers every call made to it
SpecFair ==
    /\ Init
    /\ [][NextFair]_vars
    /\ WF_vars(\E c \in DOMAIN calls : Init_Resolved(c) /\ Idle)
    /\ WF_vars(\E c \in DOMAIN calls : \E a \in AllAnswers : Forward_Settle(c, a) /\ Idle)

TypeOK ==
    /\ isInitialized \in BOOLEAN
    /\ config \in Configs
    /\ platformOS \in Platforms
    /\ Len(calls) <= MaxCalls + MountCalls
    /\ \A c \in DOMAIN calls : calls[c].pc \in {"awaiting", "done"}

(* ------------------- loading the native module binding ----------------- *)
\* the error nativeModule.ts throws when NativeModules.RNMSAL is missing
ModuleUnavailableError ==
    JSError(<<"Native module RNMSAL is not available. ",
              "Please ensure you have linked the native module correctly. ",
              "Run: npx react-native link react-native-msal (or use Expo config plugin for Expo projects)">>)

\* variant: the binding is exported without being tested
Load_NativeModule_Unchecked ==
    /\ moduleLoad.status = "unloaded"
    /\ moduleLoad' = [moduleLoad EXCEPT !.lookups = @ + 1, !.status = "loaded"]
    /\ UNCHANGED <<isInitialized, config, platformOS, calls, nativeLog, auth, svc, tasks, api, storage>>

\* the one evaluation of nativeModule.ts: the lookup, the test, the export
Load_NativeModule ==
    /\ moduleLoad.status = "unloaded"
    /\ moduleLoad' =
          IF moduleLoad.binding = "absent"
          THEN [moduleLoad EXCEPT !.lookups = @ + 1, !.status = "failed",
                                  !.error = ModuleUnavailableError]
          ELSE [moduleLoad EXCEPT !.lookups = @ + 1, !.status = "loaded"]
    /\ UNCHANGED <<isInitialized, config, platformOS, calls, nativeLog, auth, svc, tasks, api, storage>>

\* new PublicClientApplication(config): the class exists only once its import
\* of nativeModule.ts has been evaluated without throwing
Construct_Facade ==
    /\ moduleLoad.status = "loaded"
    /\ ~moduleLoad.facade
    /\ moduleLoad' = [moduleLoad EXCEPT !.facade = TRUE]
    /\ isInitialized' = FALSE
    /\ UNCHANGED <<config, platformOS, calls, nativeLog, auth, svc, tasks, api, storage>>

\* the state before nativeModule.ts is evaluated
InitLoad ==
    /\ isInitialized = FALSE
    /\ config \in Configs
    /\ platformOS \in Platforms
    /\ calls = <<>>
    /\ nativeLog = <<>>
    /\ moduleLoad \in {[binding |-> b, status |-> "unloaded", error |-> JSUndefined,
                         lookups |-> 0, facade |-> FALSE] : b \in {"present", "absent"}}
    /\ auth = AuthInitial
    /\ svc = <<>>
    /\ tasks = <<>>
    /\ api = ApiInitial
    /\ storage = StorageInitial

NextLoad ==
    \/ Load_NativeModule
    \/ Construct_Facade
    \/ moduleLoad.facade /\ Next

SpecLoad == InitLoad /\ [][NextLoad]_vars

(* ------------------- the example msalService wrappers ------------------- *)
\* number of handler invocations and direct msalService calls after the mount
MaxHandlerCalls == 2

\* scopes = ['user.read'], the default of login, loginSilent and the handlers
DefaultScopes == "user.read"

\* the test `if (value)`
Truthy(value) ==
    CASE value.t \in {"undefined", "null"} -> FALSE
      [] value.t = "boolean" -> value.v
      [] OTHER -> TRUE

Returned(value) == [outcome |-> "returned", value |-> value]
Raised(error) == [outcome |-> "raised", value |-> error]

\* variant: the wrappers have no try/catch
ServiceWrap_NoCatch(fn, call) ==
    IF call.outcome = "resolved"
    THEN CASE fn \in {"initializeMSAL", "logout", "removeAccount"} -> Returned(JSBoolean(TRUE))
           [] OTHER -> Returned(call.value)
    ELSE Raised(call.value)

\* what the wrapper fn returns once its facade call has settled: the try
\* block when the call resolved, the catch block when it rejected
ServiceWrap(fn, call) ==
    IF call.outcome = "resolved"
    THEN CASE fn \in {"initializeMSAL", "logout", "removeAccount"} -> Returned(JSBoolean(TRUE))
           [] OTHER -> Returned(call.value)
    ELSE CASE fn \in {"initializeMSAL", "logout", "removeAccount"} -> Returned(JSBoolean(FALSE))
           [] fn = "getAccounts" -> Returned(JSArray(<<>>))
           [] OTHER -> Returned(JSUndefined)

(* ----------------------- the example AuthProvider ----------------------- *)
\* a handler invocation (or a direct wrapper call) about to call wrapper fn
NewTask(kind, fn) ==
    [kind |-> kind, fn |-> fn, pc |-> "awaiting", call |-> 0, made |-> 0, ret |-> JSUndefined]

Continue(a, pc, ret) == [auth |-> a, pc |-> pc, ret |-> ret]

\* variant: isLoading is cleared on the success path only, not in a finally
InitAuth_AfterInitialize_NoFinally(a, r) ==
    IF r.outcome = "returned" /\ r.value.v
    THEN Continue([a EXCEPT !.isInitialized = TRUE], "toGetAccounts", JSUndefined)
    ELSE Continue([a EXCEPT !.isInitialized = FALSE], "done", JSUndefined)

\* initAuth after `await initializeMSAL()`
InitAuth_AfterInitialize(a, r) ==
    IF r.outcome = "raised"
    THEN Continue([a EXCEPT !.isLoading = FALSE], "done", JSUndefined)
    ELSE IF r.value.v
         THEN Continue([a EXCEPT !.isInitialized = TRUE], "toGetAccounts", JSUndefined)
         ELSE Continue([a EXCEPT !.isInitialized = FALSE, !.isLoading = FALSE],
                       "done", JSUndefined)

\* initAuth after `await getAccounts()`
InitAuth_AfterGetAccounts(a, r) ==
    IF r.outcome = "raised"
    THEN Continue([a EXCEPT !.isLoading = FALSE], "done", JSUndefined)
    ELSE Continue([a EXCEPT !.user = IF Len(r.value.v) > 0 THEN r.value.v[1] ELSE @,
                            !.isLoading = FALSE],
                  "done", JSUndefined)

\* variant: a login without a result ends the session
HandleLogin_After_ClearsOnNoResult(a, r) ==
    IF r.outcome = "returned" /\ Truthy(r.value)
    THEN Continue([a EXCEPT !.user = r.value.account,
                            !.accessToken = JSString(<<r.value.accessToken>>),
                            !.isLoading = FALSE],
                  "done", r.value)
    ELSE Continue([a EXCEPT !.user = JSNull, !.accessToken = JSNull, !.isLoading = FALSE],
                  "done", JSUndefined)

\* handleLogin after `await login(scopes)`
HandleLogin_After(a, r) ==
    IF r.outcome = "returned" /\ Truthy(r.value)
    THEN Continue([a EXCEPT !.user = r.value.account,
                            !.accessToken = JSString(<<r.value.accessToken>>),
                            !.isLoading = FALSE],
                  "done", r.value)
    ELSE Continue([a EXCEPT !.isLoading = FALSE], "done", JSUndefined)

\* variant: the session is cleared whatever logout(user) returned
HandleLogout_After_ClearsAlways(a, r) ==
    Continue([a EXCEPT !.user = JSNull, !.accessToken = JSNull, !.isLoading = FALSE],
             "done", JSBoolean(r.outcome = "returned" /\ Truthy(r.value)))

\* handleLogout after `await logout(user)`
HandleLogout_After(a, r) ==
    IF r.outcome = "returned" /\ Truthy(r.value)
    THEN Continue([a EXCEPT !.user = JSNull, !.accessToken = JSNull, !.isLoading = FALSE],
                  "done", JSBoolean(TRUE))
    ELSE Continue([a EXCEPT !.isLoading = FALSE], "done", JSBoolean(FALSE))

\* variant: a refresh also replaces the user by the result's account
HandleRefreshToken_After_SetsUser(a, r) ==
    IF r.outcome = "raised"
    THEN Continue([a EXCEPT !.accessToken = JSNull], "done", JSBoolean(FALSE))
    ELSE IF Truthy(r.value)
         THEN Continue([a EXCEPT !.accessToken = JSString(<<r.value.accessToken>>),
                                 !.user = r.value.account],
                       "done", JSBoolean(TRUE))
         ELSE Continue(a, "done", JSBoolean(FALSE))

\* handleRefreshToken after `await loginSilent(user, scopes)`
HandleRefreshToken_After(a, r) ==
    IF r.outcome = "raised"
    THEN Continue([a EXCEPT !.accessToken = JSNull], "done", JSBoolean(FALSE))
    ELSE IF Truthy(r.value)
         THEN Continue([a EXCEPT !.accessToken = JSString(<<r.value.accessToken>>)],
                       "done", JSBoolean(TRUE))
         ELSE Continue(a, "done", JSBoolean(FALSE))

\* the rest of the handler of task once wrapper task.fn has returned r
Resume(task, a, r) ==
    CASE task.kind = "initAuth" /\ task.fn = "initializeMSAL" -> InitAuth_AfterInitialize(a, r)
      [] task.kind = "initAuth" /\ task.fn = "getAccounts" -> InitAuth_AfterGetAccounts(a, r)
      [] task.kind = "handleLogin" -> HandleLogin_After(a, r)
      [] task.kind = "handleLogout" -> HandleLogout_After(a, r)
      [] task.kind = "handleRefreshToken" -> HandleRefreshToken_After(a, r)
      [] OTHER -> Continue(a, "done", r.value)

Put(t, task) ==
    IF t > Len(tasks) THEN Append(tasks, task) ELSE [tasks EXCEPT ![t] = task]

\* task t has just made the facade call calls'[Len(calls) + 1] through
\* wrapper task.fn, with the React state a: it is suspended at the await, or,
\* when the facade call settled at once, it runs on to its next await or end
Started(t, task, a) ==
    LET n == Len(calls) + 1
        r == ServiceWrap(task.fn, calls'[n])
        k == Resume(task, a, r)
    IN  IF calls'[n].pc = "done"
        THEN /\ svc' = Append(svc, [fn |-> task.fn, task |-> t,
                                    outcome |-> r.outcome, value |-> r.value])
             /\ auth' = k.auth
             /\ tasks' = Put(t, [task EXCEPT !.pc = k.pc, !.ret = k.ret,
                                             !.call = n, !.made = @ + 1])
        ELSE /\ svc' = Append(svc, [fn |-> task.fn, task |-> t,
                                    outcome |-> "pending", value |-> JSUndefined])
             /\ auth' = a
             /\ tasks' = Put(t, [task EXCEPT !.pc = "awaiting", !.call = n, !.made = @ + 1])

\* facade call c has just settled: its wrapper returns and the handler that
\* awaits it runs on
Resumed(c) ==
    LET t == svc[c].task
        r == ServiceWrap(svc[c].fn, calls'[c])
        k == Resume(tasks[t], auth, r)
    IN  /\ svc' = [svc EXCEPT ![c] = [@ EXCEPT !.outcome = r.outcome, !.value = r.value]]
        /\ auth' = k.auth
        /\ tasks' = [tasks EXCEPT ![t] = [@ EXCEPT !.pc = k.pc, !.ret = k.ret]]

Mounted == tasks # <<>>

\* initAuth is not between the return of initializeMSAL() and its call of
\* getAccounts(), which run in one turn of the event loop
BetweenTurns == Mounted => tasks[1].pc # "toGetAccounts"

CanHandle == Mounted /\ BetweenTurns /\ Len(tasks) - 1 < MaxHandlerCalls

\* the mount effect: initAuth() up to `await initializeMSAL()`
Mount_InitAuth ==
    /\ ~Mounted
    /\ Init_Call
    /\ Started(1, NewTask("initAuth", "initializeMSAL"), auth)
    /\ UNCHANGED <<moduleLoad, api, storage>>

\* initAuth: `await getAccounts()` when initialized, in the turn in which
\* initializeMSAL() returned true
InitAuth_GetAccounts ==
    /\ Mounted
    /\ tasks[1].pc = "toGetAccounts"
    /\ GetAccounts_Call
    /\ Started(1, [tasks[1] EXCEPT !.fn = "getAccounts"], auth)
    /\ UNCHANGED <<moduleLoad, api, storage>>

\* handleLogin() up to `await login(scopes)`
HandleLogin_Call ==
    /\ CanHandle
    /\ AcquireToken_Call([t |-> "MSALInteractiveParams", scopes |-> DefaultScopes])
    /\ Started(Len(tasks) + 1, NewTask("handleLogin", "login"),
               [auth EXCEPT !.isLoading = TRUE])
    /\ UNCHANGED <<moduleLoad, api, storage>>

\* handleLogout() up to `await logout(user)`, or to its end when there is no user
HandleLogout_Call ==
    /\ CanHandle
    /\ IF Truthy(auth.user)
       THEN /\ SignOut_Call([t |-> "MSALSignoutParams", account |-> auth.user,
                             signoutFromBrowser |-> TRUE])
            /\ Started(Len(tasks) + 1, NewTask("handleLogout", "logout"),
                       [auth EXCEPT !.isLoading = TRUE])
       ELSE /\ tasks' = Append(tasks, [NewTask("handleLogout", "logout") EXCEPT
                                          !.pc = "done", !.ret = JSBoolean(FALSE)])
            /\ auth' = [auth EXCEPT !.isLoading = FALSE]
            /\ UNCHANGED <<isInitialized, config, platformOS, calls, nativeLog, svc>>
    /\ UNCHANGED <<moduleLoad, api, storage>>

\* handleRefreshToken() up to `await loginSilent(user, scopes)`, or to its
\* end when there is no user
HandleRefreshToken_Call ==
    /\ CanHandle
    /\ IF ~Truthy(auth.user)
       THEN /\ tasks' = Append(tasks, [NewTask("handleRefreshToken", "loginSilent") EXCEPT
                                          !.pc = "done", !.ret = JSBoolean(FALSE)])
            /\ UNCHANGED <<isInitialized, config, platformOS, calls, nativeLog, svc, auth>>
       ELSE /\ AcquireTokenSilent_Call([t |-> "MSALSilentParams", account |-> auth.user,
                                        scopes |-> DefaultScopes, forceRefresh |-> FALSE])
            /\ Started(Len(tasks) + 1, NewTask("handleRefreshToken", "loginSilent"), auth)
    /\ UNCHANGED <<moduleLoad, api, storage>>

\* msalService.getAccount(accountIdentifier) called by the application
Service_GetAccount_Call(accountIdentifier) ==
    /\ CanHandle
    /\ GetAccount_Call(accountIdentifier)
    /\ Started(Len(tasks) + 1, NewTask("service", "getAccount"), auth)
    /\ UNCHANGED <<moduleLoad, api, storage>>

\* msalService.removeAccount(account) called by the application
Service_RemoveAccount_Call(account) ==
    /\ CanHandle
    /\ RemoveAccount_Call(account)
    /\ Started(Len(tasks) + 1, NewTask("service", "removeAccount"), auth)
    /\ UNCHANGED <<moduleLoad, api, storage>>

\* pca.init() returns to initializeMSAL
App_Init_Resolved(c) ==
    /\ BetweenTurns
    /\ Init_Resolved(c)
    /\ Resumed(c)
    /\ UNCHANGED <<moduleLoad, api, storage>>

\* pca.init() throws into initializeMSAL
App_Init_Rejected(c, error) ==
    /\ BetweenTurns
    /\ Init_Rejected(c, error)
    /\ Resumed(c)
    /\ UNCHANGED <<moduleLoad, api, storage>>

\* a guarded facade call returns or throws into its wrapper
App_Forward_Settle(c, answer) ==
    /\ BetweenTurns
    /\ Forward_Settle(c, answer)
    /\ Resumed(c)
    /\ UNCHANGED <<moduleLoad, api, storage>>

NextApp ==
    \/ Mount_InitAuth
    \/ InitAuth_GetAccounts
    \/ HandleLogin_Call
    \/ HandleLogout_Call
    \/ HandleRefreshToken_Call
    \/ \E id \in AccountIdentifiers : Service_GetAccount_Call(id)
    \/ \E a \in Accounts : Service_RemoveAccount_Call(a)
    \/ \E c \in DOMAIN calls : App_Init_Resolved(c)
    \/ \E c \in DOMAIN calls : \E e \in SetupFailures : App_Init_Rejected(c, e)
    \/ \E c \in DOMAIN calls : \E a \in AllAnswers : App_Forward_Settle(c, a)

\* the example application: AuthProvider and msalService over the facade
SpecApp == Init /\ [][NextApp]_vars

\* the mount effect runs, and the native module answers every call it was given
SpecAppFair ==
    /\ SpecApp
    /\ WF_vars(Mount_InitAuth)
    /\ WF_vars(InitAuth_GetAccounts)
    /\ WF_vars(\E c \in DOMAIN calls : App_Init_Resolved(c))
    /\ WF_vars(\E c \in DOMAIN calls : \E a \in AllAnswers : App_Forward_Settle(c, a))

\* the handler invocations of one kind
TasksOf(kind) == {t \in DOMAIN tasks : tasks[t].kind = kind}

\* this step runs task t to its end
Finishes(t) ==
    /\ t \in DOMAIN tasks'
    /\ tasks'[t].pc = "done"
    /\ t \in DOMAIN tasks => tasks[t].pc # "done"

(* -------------------- the example secureStorage service ----------------- *)
\* the clock runs from 0 to MaxTime; MaxStorageOps secureStorage calls are made
MaxTime == 2
MaxStorageOps == 3

\* a number as JSON text, and back
Digits == <<"0", "1", "2", "3", "4", "5", "6", "7", "8", "9">>
NumberToText(n) == Digits[n + 1]
TextToNumber(text) == (CHOOSE i \in DOMAIN Digits : Digits[i] = text) - 1

StoredTokens ==
    {[accessToken |-> "tok1", refreshToken |-> r, expiresAt |-> e] :
        r \in {JSUndefined, JSString(<<"r1">>)}, e \in 0..MaxTime}

\* JSON.stringify(tokens): a member that is undefined is left out
JSONStringify(tokens) ==
    JSString(<<"accessToken", tokens.accessToken>>
             \o (IF tokens.refreshToken = JSUndefined
                 THEN <<>> ELSE <<"refreshToken", tokens.refreshToken.v[1]>>)
             \o <<"expiresAt", NumberToText(tokens.expiresAt)>>)

\* the value of member key in JSON text, none when it has no such member
Member(text, key) ==
    LET at == {i \in DOMAIN text : i % 2 = 1 /\ text[i] = key}
    IN  IF at = {} THEN <<>> ELSE <<text[(CHOOSE i \in at : TRUE) + 1]>>

\* JSON.parse(stored) as StoredTokens
JSONParse(stored) ==
    [accessToken |-> Member(stored.v, "accessToken")[1],
     refreshToken |-> IF Member(stored.v, "refreshToken") = <<>>
                      THEN JSUndefined ELSE JSString(Member(stored.v, "refreshToken")),
     expiresAt |-> TextToNumber(Member(stored.v, "expiresAt")[1])]

\* tokens.expiresAt < Date.now()
Expired(tokens, now) == tokens.expiresAt < now

CanStore == storage.ops < MaxStorageOps

Finished(op, ret, read) == [op |-> op, ret |-> ret, read |-> read]

\* time passes
Tick ==
    /\ storage.now < MaxTime
    /\ storage' = [storage EXCEPT !.now = @ + 1]
    /\ UNCHANGED <<isInitialized, config, platformOS, calls, nativeLog, moduleLoad,
                   auth, svc, tasks, api>>

\* saveTokens(tokens); stored tells whether SecureStore.setItemAsync went through
SaveTokens(tokens, stored) ==
    /\ CanStore
    /\ storage' = [storage EXCEPT
                      !.item = IF stored THEN JSONStringify(tokens) ELSE @,
                      !.ops = @ + 1,
                      !.cleared = FALSE,
                      !.last = Finished("saveTokens", JSUndefined, JSNull)]
    /\ UNCHANGED <<isInitialized, config, platformOS, calls, nativeLog, moduleLoad,
                   auth, svc, tasks, api>>

\* clearTokens(); deleted tells whether SecureStore.deleteItemAsync went through
ClearTokens(deleted) ==
    /\ CanStore
    /\ storage' = [storage EXCEPT
                      !.item = IF deleted THEN JSNull ELSE @,
                      !.ops = @ + 1,
                      !.cleared = TRUE,
                      !.last = Finished("clearTokens", JSUndefined, JSNull)]
    /\ UNCHANGED <<isInitialized, config, platformOS, calls, nativeLog, moduleLoad,
                   auth, svc, tasks, api>>

\* getTokens(); read and deleted tell whether SecureStore.getItemAsync and
\* the SecureStore.deleteItemAsync of the expired branch went through
GetTokens(read, deleted) ==
    /\ CanStore
    /\ LET stored == storage.item
           tokens == JSONParse(stored)
       IN  IF ~read \/ ~Truthy(stored)
           THEN storage' = [storage EXCEPT
                               !.ops = @ + 1,
                               !.last = Finished("getTokens", JSNull, JSNull)]
           ELSE IF Expired(tokens, storage.now)
                THEN storage' = [storage EXCEPT
                                    !.item = IF deleted THEN JSNull ELSE @,
                                    !.ops = @ + 1,
                                    !.cleared = TRUE,
                                    !.last = Finished("getTokens", JSNull, tokens)]
                ELSE storage' = [storage EXCEPT
                                    !.ops = @ + 1,
                                    !.last = Finished("getTokens", tokens, tokens)]
    /\ UNCHANGED <<isInitialized, config, platformOS, calls, nativeLog, moduleLoad,
                   auth, svc, tasks, api>>

NextStorage ==
    \/ Tick
    \/ \E tokens \in StoredTokens : \E stored \in BOOLEAN : SaveTokens(tokens, stored)
    \/ \E deleted \in BOOLEAN : ClearTokens(deleted)
    \/ \E read \in BOOLEAN : \E deleted \in BOOLEAN : GetTokens(read, deleted)

\* the secureStorage service, its calls made one after the other
SpecStorage == Init /\ [][NextStorage]_vars

(* --------------------- the example useProtectedApi hook ----------------- *)
\* MaxRequests request() calls are made, with retryCount up to MaxRetryCount
MaxRequests == 2
MaxRetryCount == 2

\* `response.status === 401`, and the default of options.retryCount
Unauthorized == 401
DefaultRetryCount == 1

JSNumber(n) == [t |-> "number", v |-> n]

\* the options of a request() call: retryCount given or left out
ApiOptions ==
    {[retryCount |-> JSUndefined]} \cup {[retryCount |-> JSNumber(n)] : n \in 0..MaxRetryCount}

\* const { retryCount = 1 } = options
RetryCountOf(options) ==
    IF options.retryCount = JSUndefined THEN DefaultRetryCount ELSE options.retryCount.v

\* the accessToken the hook got from useAuth()
ApiTokens == {JSNull, JSString(<<"tok1">>)}

Statuses == {200, Unauthorized, 500}

\* response.ok
ResponseOk(status) == status >= 200 /\ status <= 299

NoTokenError == JSError(<<"No access token available. User may not be logged in.">>)
ApiError(status) == JSError(<<"API error: ">> \o <<status>>)
NetworkError == JSError(<<"Network request failed">>)
ParseError == JSError(<<"JSON Parse error">>)
ParsedBody == JSObject

\* what fetch() and response.json() can answer
FetchAnswers == {Fail(NetworkError)} \cup {Ok([t |-> "Response", status |-> st]) : st \in Statuses}
JsonAnswers == {Ok(ParsedBody), Fail(ParseError)}

CanRequest == Len(api) < MaxRequests

NewRequest(options) ==
    [initial |-> RetryCountOf(options), retryCount |-> RetryCountOf(options),
     pc |-> "fetching", fetches |-> 1, statuses |-> <<>>, refreshes |-> <<>>,
     outcome |-> "pending", value |-> JSUndefined]

Ended(request, outcome, value) ==
    [request EXCEPT !.pc = "done", !.outcome = outcome, !.value = value]

\* request(url, options) up to `await fetch(...)`, or to its throw without a token
Request_Call(options, accessToken) ==
    /\ CanRequest
    /\ api' = Append(api,
                IF ~Truthy(accessToken)
                THEN [Ended(NewRequest(options), "rejected", NoTokenError) EXCEPT !.fetches = 0]
                ELSE NewRequest(options))
    /\ UNCHANGED <<isInitialized, config, platformOS, calls, nativeLog, moduleLoad,
                   auth, svc, tasks, storage>>

\* `await fetch(...)` returns a response or throws
Fetch_Settle(r, answer) ==
    /\ r \in DOMAIN api
    /\ api[r].pc = "fetching"
    /\ answer \in FetchAnswers
    /\ api' = [api EXCEPT ![r] =
                IF ~answer.ok
                THEN Ended(@, "rejected", answer.value)
                ELSE LET status == answer.value.status
                         seen == [@ EXCEPT !.statuses = Append(@, status)]
                     IN  IF status = Unauthorized /\ @.retryCount > 0
                         THEN [seen EXCEPT !.pc = "refreshing"]
                         ELSE IF ~ResponseOk(status)
                              THEN Ended(seen, "rejected", ApiError(status))
                              ELSE [seen EXCEPT !.pc = "parsing"]]
    /\ UNCHANGED <<isInitialized, config, platformOS, calls, nativeLog, moduleLoad,
                   auth, svc, tasks, storage>>

\* variant: the retry passes options on as they are
Refresh_Settle_SameOptions(r, refreshed) ==
    /\ r \in DOMAIN api
    /\ api[r].pc = "refreshing"
    /\ api' = [api EXCEPT ![r] =
                LET told == [@ EXCEPT !.refreshes = Append(@, refreshed)]
                IN  IF refreshed
                    THEN [told EXCEPT !.fetches = @ + 1, !.pc = "fetching"]
                    ELSE Ended(told, "rejected", ApiError(Unauthorized))]
    /\ UNCHANGED <<isInitialized, config, platformOS, calls, nativeLog, moduleLoad,
                   auth, svc, tasks, storage>>

\* `await refreshToken(scopes)` returns: the retry, a request() call with
\* retryCount - 1 that goes on to its fetch, or the throw of `!response.ok`
Refresh_Settle(r, refreshed) ==
    /\ r \in DOMAIN api
    /\ api[r].pc = "refreshing"
    /\ api' = [api EXCEPT ![r] =
                LET told == [@ EXCEPT !.refreshes = Append(@, refreshed)]
                IN  IF refreshed
                    THEN [told EXCEPT !.retryCount = @ - 1, !.fetches = @ + 1,
                                      !.pc = "fetching"]
                    ELSE Ended(told, "rejected", ApiError(Unauthorized))]
    /\ UNCHANGED <<isInitialized, config, platformOS, calls, nativeLog, moduleLoad,
                   auth, svc, tasks, storage>>

\* the promise of response.json() settles
Json_Settle(r, answer) ==
    /\ r \in DOMAIN api
    /\ api[r].pc = "parsing"
    /\ answer \in JsonAnswers
    /\ api' = [api EXCEPT ![r] =
                Ended(@, IF answer.ok THEN "resolved" ELSE "rejected", answer.value)]
    /\ UNCHANGED <<isInitialized, config, platformOS, calls, nativeLog, moduleLoad,
                   auth, svc, tasks, storage>>

NextApi ==
    \/ \E o \in ApiOptions : \E token \in ApiTokens : Request_Call(o, token)
    \/ \E r \in DOMAIN api : \E a \in FetchAnswers : Fetch_Settle(r, a)
    \/ \E r \in DOMAIN api : \E b \in BOOLEAN : Refresh_Settle(r, b)
    \/ \E r \in DOMAIN api : \E a \in JsonAnswers : Json_Settle(r, a)

\* the hook is used in one application: one configuration, one platform
InitApi ==
    /\ Init
    /\ config.clientId = "abc"
    /\ platformOS = "ios"

\* the hook's request(), with fetch, refreshToken and response.json()
\* answering every call made to them
SpecApi ==
    /\ InitApi
    /\ [][NextApi]_vars
    /\ WF_vars(\E r \in DOMAIN api : \E a \in FetchAnswers : Fetch_Settle(r, a))
    /\ WF_vars(\E r \in DOMAIN api : \E b \in BOOLEAN : Refresh_Settle(r, b))
    /\ WF_vars(\E r \in DOMAIN api : \E a \in JsonAnswers : Json_Settle(r, a))

(* ------------------------- derived history ------------------------------ *)
InitCalls == {c \in DOMAIN calls : calls[c].op = "init"}
GuardedCalls == DOMAIN calls \ InitCalls

\* the createPublicClientApplication invocations made by call c
SetupCallsOf(c) ==
    {i \in NativeCallsOf(c) : nativeLog[i].method = "createPublicClientApplication"}

SetupCalls == UNION {SetupCallsOf(c) : c \in DOMAIN calls}

\* init() call d had settled before call c was made
SettledBefore(d, c) == d \in InitCalls /\ d < c /\ d \notin calls[c].initsInFlight

\* a successful init() had completed before call c was made
ReadyAtCall(c) ==
    \E d \in InitCalls : SettledBefore(d, c) /\ calls[d].outcome = "resolved"

\* no init() call was made while another init() call was in flight
SequentialInits ==
    \A c \in InitCalls : calls[c].initsInFlight = {}

\* the init() calls made before any init() call had completed
FirstWave ==
    {c \in InitCalls : \A d \in InitCalls : d < c => d \in calls[c].initsInFlight}

RejectedNotInitialized(c) ==
    /\ calls[c].pc = "done"
    /\ calls[c].outcome = "rejected"
    /\ calls[c].value = NotInitializedError
    /\ NativeCallsOf(c) = {}

(* -------------------------------- claims -------------------------------- *)

\* C1: while isInitialized is false, and as long as no init() call has
\* succeeded, the only native method ever invoked is
\* createPublicClientApplication, and every acquireToken, acquireTokenSilent,
\* getAccounts, getAccount, removeAccount and signOut call made so far has
\* failed with the not-initialized error without invoking the native module.
C1_GuardBeforeInit ==
    (~isInitialized \/ \A c \in InitCalls : calls[c].outcome # "resolved") =>
        /\ \A i \in DOMAIN nativeLog : nativeLog[i].method = "createPublicClientApplication"
        /\ \A c \in GuardedCalls : RejectedNotInitialized(c)

\* C1 witness: setup has failed, and operations of two different kinds
\* were then refused
C1_Witness ==
    /\ ~isInitialized
    /\ \E c \in InitCalls : calls[c].outcome = "rejected"
    /\ \E c, d \in GuardedCalls :
          /\ calls[c].op = "signOut"
          /\ calls[d].op = "getAccounts"
          /\ RejectedNotInitialized(c)
          /\ RejectedNotInitialized(d)

\* C2 (as stated): the init() calls made before the first init() call
\* completes invoke createPublicClientApplication at most once between them.
C2_SetupAtMostOnce ==
    Cardinality(UNION {SetupCallsOf(c) : c \in FirstWave}) <= 1

\* C2 (amended): every init() call made before the first init() call
\* completes invokes createPublicClientApplication exactly once itself, so
\* k overlapping calls invoke it k times; no init() call invokes it twice,
\* and an init() call made after a successful one does not invoke it.
C2_SetupOncePerOverlappingInit ==
    /\ \A c \in FirstWave : Cardinality(SetupCallsOf(c)) = 1
    /\ \A c \in InitCalls : Cardinality(SetupCallsOf(c)) <= 1
    /\ \A c \in InitCalls : ReadyAtCall(c) => SetupCallsOf(c) = {}

\* C2 witness: two init() calls in flight together, each with its own
\* createPublicClientApplication invocation
C2_Witness ==
    \E c, d \in FirstWave :
        /\ c # d
        /\ c \in calls[d].initsInFlight
        /\ Cardinality(SetupCallsOf(c) \cup SetupCallsOf(d)) = 2

\* C3: when init() calls are made one after the other, every init() call
\* made after a successful one resolves to the facade without invoking
\* createPublicClientApplication, and the successful setup was invoked
\* exactly once.
C3_SequentialInitOnce ==
    SequentialInits =>
        /\ \A c \in InitCalls : ReadyAtCall(c) =>
              /\ calls[c].pc = "done"
              /\ calls[c].outcome = "resolved"
              /\ calls[c].value = This
              /\ NativeCallsOf(c) = {}
        /\ (\E c \in InitCalls : calls[c].outcome = "resolved") =>
              Cardinality({i \in SetupCalls : nativeLog[i].answer.ok}) = 1

\* C3 witness: a successful init() followed by two more init() calls
C3_Witness ==
    /\ SequentialInits
    /\ Len(calls) >= 3
    /\ \A c \in 1..3 : calls[c].op = "init" /\ calls[c].outcome = "resolved"
    /\ Cardinality(SetupCalls) = 1

\* C4: as long as no init() call has succeeded the flag is false and the
\* guarded operations are refused; an init() call made after every earlier
\* init() call has failed invokes createPublicClientApplication again, with
\* the configuration; and once an init() call has succeeded the facade is
\* Ready.
C4_RetryAfterFailure ==
    /\ (\A c \in InitCalls : calls[c].outcome # "resolved") =>
          /\ ~isInitialized
          /\ \A c \in GuardedCalls : RejectedNotInitialized(c)
    /\ \A c \in InitCalls :
          (\A d \in InitCalls : d < c => SettledBefore(d, c) /\ calls[d].outcome = "rejected") =>
              /\ Cardinality(SetupCallsOf(c)) = 1
              /\ \A i \in SetupCallsOf(c) : nativeLog[i].arg = config
    /\ (\E c \in InitCalls : calls[c].outcome = "resolved") => isInitialized

\* C4 witness: init() fails, an operation is refused, the next init()
\* invokes the setup again and succeeds
C4_Witness ==
    /\ Len(calls) >= 3
    /\ calls[1].op = "init" /\ calls[1].outcome = "rejected"
    /\ calls[2].op = "getAccounts" /\ RejectedNotInitialized(2)
    /\ calls[3].op = "init" /\ calls[3].outcome = "resolved"
    /\ SettledBefore(1, 3)
    /\ Cardinality(SetupCallsOf(3)) = 1
    /\ isInitialized

\* C5: no step takes isInitialized from true back to false.
C5_ReadyIsTerminal == [][isInitialized => isInitialized']_vars

\* C5 witness: the facade is Ready although the setup of a second,
\* overlapping init() failed and a provider call failed
C5_Witness ==
    /\ isInitialized
    /\ \E c, d \in InitCalls :
          /\ calls[c].outcome = "resolved"
          /\ calls[d].outcome = "rejected"
          /\ c < d
    /\ \E c \in GuardedCalls : calls[c].outcome = "rejected" /\ calls[c].value = ProviderError

\* C6: isInitialized is false until a createPublicClientApplication
\* invocation of this facade has been answered with success.
C6_FlagOnlyAfterSetup ==
    /\ (calls = <<>> => ~isInitialized)
    /\ isInitialized => \E i \in SetupCalls : nativeLog[i].answer = Ok(JSUndefined)

\* C6 witness: the flag is set, and a second setup is still unanswered
C6_Witness ==
    /\ isInitialized
    /\ \E i, j \in SetupCalls : nativeLog[i].answer = Ok(JSUndefined) /\ nativeLog[j].answer = Pending

\* C7: a rejected init() carries a new Error whose message contains the
\* message of the provider's Error, or the string form of the rejection
\* value when that is not an Error, and is not the provider's value itself.
C7_InitErrorWrapsMessage ==
    \A c \in InitCalls : calls[c].outcome = "rejected" =>
        /\ Cardinality(SetupCallsOf(c)) = 1
        /\ \A i \in SetupCallsOf(c) :
              LET e == nativeLog[i].answer.value IN
              /\ ~nativeLog[i].answer.ok
              /\ calls[c].value.t = "Error"
              /\ Contains(calls[c].value.message,
                          IF e.t = "Error" THEN e.message ELSE String(e))
              /\ Contains(calls[c].value.message, InitErrorPrefix)
              /\ calls[c].value # e

\* C7 witness: one init() failed on an Error, another on a value that is
\* not an Error
C7_Witness ==
    \E c, d \in InitCalls :
        /\ calls[c].outcome = "rejected"
        /\ calls[d].outcome = "rejected"
        /\ \E i \in SetupCallsOf(c) : nativeLog[i].answer.value.t = "Error"
        /\ \E i \in SetupCallsOf(d) : nativeLog[i].answer.value.t = "object"

\* C8: every init() call that resolved, after a setup of its own or as a
\* no-op, resolved to the facade instance.
C8_InitReturnsThis ==
    \A c \in InitCalls : calls[c].outcome = "resolved" => calls[c].value = This

\* C8 witness: an init() that performed the setup and one that was a no-op
C8_Witness ==
    \E c, d \in InitCalls :
        /\ calls[c].outcome = "resolved" /\ SetupCallsOf(c) # {}
        /\ calls[d].outcome = "resolved" /\ SetupCallsOf(d) = {}

\* C9: an acquireToken or acquireTokenSilent call made in Ready that
\* resolved carries exactly the value its one native invocation answered.
C9_TokenResultUnmodified ==
    \A c \in GuardedCalls :
        (calls[c].op \in {"acquireToken", "acquireTokenSilent"} /\ ReadyAtCall(c)) =>
            /\ Cardinality(NativeCallsOf(c)) = 1
            /\ \A i \in NativeCallsOf(c) :
                  /\ nativeLog[i].answer = Pending <=> calls[c].pc = "awaiting"
                  /\ nativeLog[i].answer.ok =>
                        /\ calls[c].outcome = "resolved"
                        /\ calls[c].value = nativeLog[i].answer.value

\* C9 witness: an interactive acquisition answered with a token result
\* and a silent one answered with the empty result
C9_Witness ==
    \E c, d \in GuardedCalls :
        /\ calls[c].op = "acquireToken"
        /\ calls[c].outcome = "resolved" /\ calls[c].value = TokenResult
        /\ calls[d].op = "acquireTokenSilent"
        /\ calls[d].outcome = "resolved" /\ calls[d].value = JSUndefined

\* C10: a signOut(params) call made in Ready makes exactly one native
\* invocation: signout(params) on ios, removeAccount(params.account) on
\* every other platform; when it resolves it carries the boolean that
\* invocation answered.
C10_SignOutDispatch ==
    \A c \in GuardedCalls : (calls[c].op = "signOut" /\ ReadyAtCall(c)) =>
        /\ Cardinality(NativeCallsOf(c)) = 1
        /\ \A i \in NativeCallsOf(c) :
              /\ IF platformOS = "ios"
                 THEN nativeLog[i].method = "signout" /\ nativeLog[i].arg = calls[c].arg
                 ELSE nativeLog[i].method = "removeAccount"
                      /\ nativeLog[i].arg = calls[c].arg.account
              /\ nativeLog[i].answer.ok =>
                    /\ calls[c].outcome = "resolved"
                    /\ calls[c].value = nativeLog[i].answer.value
                    /\ calls[c].value.t = "boolean"

\* C10 witness: off ios, two sign-outs of different accounts, one answered
\* true and one answered false
C10_Witness ==
    /\ platformOS # "ios"
    /\ \E c, d \in GuardedCalls :
          /\ calls[c].op = "signOut" /\ calls[d].op = "signOut"
          /\ calls[c].arg # calls[d].arg
          /\ calls[c].outcome = "resolved" /\ calls[c].value = JSBoolean(TRUE)
          /\ calls[d].outcome = "resolved" /\ calls[d].value = JSBoolean(FALSE)

\* C11: for every guarded call made in Ready whose native invocation was
\* answered with a failure, the call rejected with that very error, it made
\* no second native invocation, and the facade is still Ready.
C11_ProviderFailurePassthrough ==
    \A c \in GuardedCalls : ReadyAtCall(c) =>
        \A i \in NativeCallsOf(c) :
            (nativeLog[i].answer # Pending /\ ~nativeLog[i].answer.ok) =>
                /\ calls[c].pc = "done"
                /\ calls[c].outcome = "rejected"
                /\ calls[c].value = nativeLog[i].answer.value
                /\ NativeCallsOf(c) = {i}
                /\ isInitialized

\* C11 witness: the provider has failed a sign-out and an account listing
C11_Witness ==
    /\ isInitialized
    /\ \E c, d \in GuardedCalls :
          /\ calls[c].op = "signOut" /\ calls[d].op = "getAccounts"
          /\ calls[c].outcome = "rejected" /\ calls[c].value = ProviderError
          /\ calls[d].outcome = "rejected" /\ calls[d].value = ProviderError
          /\ Cardinality(NativeCallsOf(c) \cup NativeCallsOf(d)) = 2

\* C12: every acquireToken, acquireTokenSilent, getAccounts, getAccount,
\* removeAccount and signOut call made in Ready has made exactly one native
\* invocation, of the method of the same name (for signOut: signout or
\* removeAccount), and acquireToken, acquireTokenSilent, getAccount and
\* removeAccount handed it the caller's argument as given.
C12_OneProviderCallSameParams ==
    \A c \in GuardedCalls : ReadyAtCall(c) =>
        /\ Cardinality(NativeCallsOf(c)) = 1
        /\ \A i \in NativeCallsOf(c) :
              /\ IF calls[c].op = "signOut"
                 THEN nativeLog[i].method \in {"signout", "removeAccount"}
                 ELSE nativeLog[i].method = calls[c].op
              /\ calls[c].op \in {"acquireToken", "acquireTokenSilent",
                                  "getAccount", "removeAccount"} =>
                    nativeLog[i].arg = calls[c].arg

\* C12 witness: two removeAccount calls with different accounts, each
\* forwarded to the native removeAccount
C12_Witness ==
    \E c, d \in GuardedCalls :
        /\ calls[c].op = "removeAccount" /\ calls[d].op = "removeAccount"
        /\ calls[c].arg = Account("u1") /\ calls[d].arg = Account("u2")
        /\ \E i \in NativeCallsOf(c) : nativeLog[i].arg = Account("u1")
        /\ \E i \in NativeCallsOf(d) : nativeLog[i].arg = Account("u2")

\* C13: a getAccounts, getAccount or removeAccount call made in Ready whose
\* native invocation answered with a value resolved with exactly that value:
\* the list with its elements in the provider's order, the account or the
\* absent result, the boolean.
C13_AccountResultsUnmodified ==
    \A c \in GuardedCalls :
        (calls[c].op \in {"getAccounts", "getAccount", "removeAccount"} /\ ReadyAtCall(c)) =>
            \A i \in NativeCallsOf(c) : nativeLog[i].answer.ok =>
                /\ calls[c].outcome = "resolved"
                /\ calls[c].value = nativeLog[i].answer.value
                /\ calls[c].op = "getAccounts" =>
                      /\ calls[c].value.t = "array"
                      /\ \A k \in DOMAIN nativeLog[i].answer.value.v :
                            calls[c].value.v[k] = nativeLog[i].answer.value.v[k]
                /\ calls[c].op = "removeAccount" => calls[c].value.t = "boolean"

\* C13 witness: a listing answered with two accounts and a lookup
\* answered with the absent result
C13_Witness ==
    \E c, d \in GuardedCalls :
        /\ calls[c].op = "getAccounts" /\ calls[c].outcome = "resolved"
        /\ calls[c].value = JSArray(<<Account("u2"), Account("u1")>>)
        /\ calls[d].op = "getAccount" /\ calls[d].outcome = "resolved"
        /\ calls[d].value = JSUndefined

\* C14: every createPublicClientApplication invocation carries the stored
\* configuration, and no step changes the stored configuration.
C14_SetupGetsConstructorConfig ==
    /\ [](\A i \in SetupCalls : nativeLog[i].arg = config)
    /\ [][config' = config]_vars

\* C14 witness: a first setup failed and a retry was made, both with the
\* stored configuration
C14_Witness ==
    \E c, d \in InitCalls :
        /\ calls[c].outcome = "rejected"
        /\ SettledBefore(c, d)
        /\ \E i \in SetupCallsOf(c) : nativeLog[i].arg = config
        /\ \E i \in SetupCallsOf(d) : nativeLog[i].arg = config
        /\ config.clientId = "xyz"

\* a step in which a guarded call is made or settles
GuardedStep ==
    \E c \in DOMAIN calls' :
        /\ calls'[c].op # "init"
        /\ c \in DOMAIN calls => calls'[c] # calls[c]

\* C15: no step of acquireToken, acquireTokenSilent, getAccounts,
\* getAccount, removeAccount or signOut, whether it calls, returns or
\* throws, changes isInitialized or the stored configuration.
C15_GuardedOpsFrame ==
    [][GuardedStep => (isInitialized' = isInitialized /\ config' = config)]_vars

\* C15 witness: the facade is Ready with two guarded operations in flight
\* together, after which both settle in either order
C15_Witness ==
    /\ isInitialized
    /\ \E c, d \in GuardedCalls \cap Awaiting :
          c # d /\ calls[c].op = "acquireTokenSilent" /\ calls[d].op = "signOut"

\* C16: once nativeModule.ts has been evaluated with the binding absent,
\* the load has failed with the error that says the native module is not
\* available, no facade has been constructed, no facade method has been
\* called, no native method has been invoked, and the binding has been
\* looked up once only.
C16_AbsentBindingFailsLoad ==
    /\ moduleLoad.lookups <= 1
    /\ (moduleLoad.binding = "absent" /\ moduleLoad.status # "unloaded") =>
          /\ moduleLoad.status = "failed"
          /\ moduleLoad.error.t = "Error"
          /\ Contains(moduleLoad.error.message, <<"Native module RNMSAL is not available. ">>)
          /\ ~moduleLoad.facade
          /\ calls = <<>>
          /\ nativeLog = <<>>
    /\ moduleLoad.facade => (moduleLoad.binding = "present" /\ moduleLoad.status = "loaded")

\* C16 witness: the load has failed on an absent binding
C16_Witness ==
    /\ moduleLoad.binding = "absent"
    /\ moduleLoad.status = "failed"
    /\ moduleLoad.lookups = 1

C18_FailedRefreshClearsToken ==
    [][\A t \in DOMAIN tasks' :
          (/\ tasks'[t].kind = "handleRefreshToken"
           /\ Finishes(t)
           /\ tasks'[t].call # 0
           /\ calls'[tasks'[t].call].value = ProviderError) =>
             /\ tasks'[t].ret = JSBoolean(FALSE)
             /\ auth'.accessToken = JSNull]_vars

\* C19: no msalService wrapper call has raised; once its facade call has
\* settled the wrapper has returned; initializeMSAL has returned true
\* exactly when pca.init() resolved; and when the facade call rejected,
\* the not-initialized rejection included, login, loginSilent and
\* getAccount have returned undefined, getAccounts the empty list, logout
\* and removeAccount false.
C19_WrappersNeverRaise ==
    \A c \in DOMAIN svc :
        /\ svc[c].outcome # "raised"
        /\ calls[c].pc = "done" =>
              /\ svc[c].outcome = "returned"
              /\ svc[c].fn = "initializeMSAL" =>
                    svc[c].value = JSBoolean(calls[c].outcome = "resolved")
              /\ calls[c].outcome = "rejected" =>
                    /\ svc[c].fn \in {"login", "loginSilent", "getAccount"} =>
                          svc[c].value = JSUndefined
                    /\ svc[c].fn = "getAccounts" => svc[c].value = JSArray(<<>>)
                    /\ svc[c].fn \in {"logout", "removeAccount"} =>
                          svc[c].value = JSBoolean(FALSE)

\* C19 witness: login has returned undefined on the not-initialized error,
\* and initializeMSAL has returned false on a failed setup
C19_Witness ==
    /\ \E c \in DOMAIN svc :
          /\ svc[c].fn = "login"
          /\ calls[c].value = NotInitializedError
          /\ svc[c].outcome = "returned"
          /\ svc[c].value = JSUndefined
    /\ \E c \in DOMAIN svc :
          /\ svc[c].fn = "initializeMSAL"
          /\ calls[c].outcome = "rejected"
          /\ svc[c].value = JSBoolean(FALSE)

C21_LoginOutcome ==
    [][\A t \in DOMAIN tasks' :
          (tasks'[t].kind = "handleLogin" /\ Finishes(t)) =>
             LET call == calls'[tasks'[t].call]
             IN  IF call.outcome = "resolved" /\ call.value # JSUndefined
                 THEN /\ auth'.user = call.value.account
                      /\ auth'.accessToken = JSString(<<call.value.accessToken>>)
                      /\ tasks'[t].ret = call.value
                 ELSE /\ tasks'[t].ret = JSUndefined
                      /\ auth'.user = auth.user
                      /\ auth'.accessToken = auth.accessToken]_vars

\* C21 witness: a login has given a result that is now the session, and a
\* later login has failed on a provider error and left the session as it was
C21_Witness ==
    /\ auth.user = Account("u1")
    /\ auth.accessToken = JSString(<<"tok1">>)
    /\ \E t, u \in TasksOf("handleLogin") :
          /\ t < u
          /\ tasks[t].ret = TokenResult
          /\ tasks[u].pc = "done"
          /\ tasks[u].ret = JSUndefined
          /\ calls[tasks[u].call].value = ProviderError

\* C22: a handleRefreshToken invocation made while user is null ends at
\* once, returns false, makes no facade call and leaves accessToken as it
\* was; whenever one ends after the silent acquisition gave a result,
\* accessToken is that result's access token afterwards, user is as it was,
\* and true is returned.
C22_RefreshOutcome ==
    [][\A t \in DOMAIN tasks' :
          (tasks'[t].kind = "handleRefreshToken" /\ Finishes(t)) =>
             /\ (t \notin DOMAIN tasks /\ auth.user = JSNull) =>
                   /\ tasks'[t].ret = JSBoolean(FALSE)
                   /\ tasks'[t].call = 0
                   /\ calls' = calls
                   /\ nativeLog' = nativeLog
                   /\ auth'.accessToken = auth.accessToken
             /\ (tasks'[t].call # 0 /\ calls'[tasks'[t].call].outcome = "resolved"
                   /\ calls'[tasks'[t].call].value # JSUndefined) =>
                   /\ auth'.accessToken =
                         JSString(<<calls'[tasks'[t].call].value.accessToken>>)
                   /\ auth'.user = auth.user
                   /\ tasks'[t].ret = JSBoolean(TRUE)]_vars

\* C22 witness: a refresh without a user has returned false, and a later
\* refresh for the user u2 found at mount has replaced the token
C22_Witness ==
    /\ auth.user = Account("u2")
    /\ auth.accessToken = JSString(<<"tok2">>)
    /\ \E t, u \in TasksOf("handleRefreshToken") :
          /\ t < u
          /\ tasks[t].call = 0
          /\ tasks[t].ret = JSBoolean(FALSE)
          /\ tasks[u].ret = JSBoolean(TRUE)
          /\ calls[tasks[u].call].value = RefreshedResult

\* C27 (as stated; the code does not keep this): accessToken is non-null
\* only if user is non-null.
C27_TokenOnlyWithUser ==
    auth.accessToken # JSNull => auth.user # JSNull

\* C25 (as stated): every guarded operation invoked while some init() call
\* was awaiting the provider's setup answer has failed with the
\* not-initialized error without reaching the provider.
C25_GuardedDuringSetupRejected ==
    \A c \in GuardedCalls :
        calls[c].initsInFlight # {} => RejectedNotInitialized(c)

\* C25 (amended): every guarded operation invoked while some init() call
\* was awaiting the provider's setup answer, and before any init() call had
\* succeeded, has failed with the not-initialized error without reaching
\* the provider, whatever became of that setup later; one invoked after an
\* init() call had succeeded has reached the provider, even with another
\* init() call still awaiting.
C25_GuardedDuringFirstSetupRejected ==
    \A c \in GuardedCalls :
        /\ (calls[c].initsInFlight # {} /\ ~ReadyAtCall(c)) => RejectedNotInitialized(c)
        /\ ReadyAtCall(c) => Cardinality(NativeCallsOf(c)) = 1

\* C25 witness: a guarded operation was refused while a setup was in
\* flight, and that setup has since succeeded
C25_Witness ==
    \E c \in GuardedCalls : \E d \in calls[c].initsInFlight :
        /\ ~ReadyAtCall(c)
        /\ RejectedNotInitialized(c)
        /\ calls[d].outcome = "resolved"
        /\ isInitialized

\* two init() calls that were in flight together
Overlapping(c, d) ==
    c \in InitCalls /\ d \in InitCalls /\ (c \in calls[d].initsInFlight \/ d \in calls[c].initsInFlight)

\* C26: once one of two overlapping init() calls has resolved, the facade is
\* Ready, whether or not the other has settled yet; when the other has
\* failed it has rejected with the initialization error; and the step in
\* which an init() call rejects leaves the flag as it was.
C26_OverlapSuccessWins ==
    /\ [](\A c, d \in InitCalls :
             (Overlapping(c, d) /\ calls[c].outcome = "resolved") =>
                /\ isInitialized
                /\ calls[d].outcome = "rejected" =>
                      /\ calls[d].value.t = "Error"
                      /\ Contains(calls[d].value.message, InitErrorPrefix))
    /\ [][\A c \in InitCalls :
             (calls[c].pc = "awaiting" /\ calls'[c].outcome = "rejected") =>
                isInitialized' = isInitialized]_vars

\* C26 witness: of two overlapping init() calls the earlier has failed
\* and the later has succeeded, and the facade is Ready
C26_Witness ==
    \E c, d \in InitCalls :
        /\ c < d
        /\ Overlapping(c, d)
        /\ calls[c].outcome = "rejected"
        /\ calls[d].outcome = "resolved"
        /\ isInitialized

\* C28: a call is suspended exactly while its provider call is unanswered:
\* a call that made no provider call (refused by the guard, or init() on a
\* Ready facade) is complete as soon as it is made, no call makes more than
\* one provider call, and a call is settled by the step that answers its
\* provider call; and, the provider answering every call, time and again
\* no call is left suspended, so every call made is eventually resolved or
\* rejected.
C28_CallsComplete ==
    /\ [](\A c \in DOMAIN calls :
             /\ Cardinality(NativeCallsOf(c)) <= 1
             /\ calls[c].pc = "awaiting" <=>
                   \E i \in NativeCallsOf(c) : nativeLog[i].answer = Pending
             /\ calls[c].pc = "done" <=> calls[c].outcome \in {"resolved", "rejected"})
    /\ []<>(Awaiting = {})

\* C28 witness: a refused call and an init() on a Ready facade have
\* completed with no provider call, and an init() call has completed on
\* the provider's answer
C28_Witness ==
    /\ \E c \in GuardedCalls : RejectedNotInitialized(c)
    /\ \E c \in InitCalls :
          calls[c].pc = "done" /\ NativeCallsOf(c) = {} /\ calls[c].outcome = "resolved"
    /\ \E c \in InitCalls :
          /\ calls[c].pc = "done"
          /\ \E i \in NativeCallsOf(c) : nativeLog[i].answer = Ok(JSUndefined)

\* the step is a getTokens() call
GetTokensStep ==
    storage'.ops = storage.ops + 1 /\ storage'.last.op = "getTokens"

\* C24 (as stated; the code does not do this): getTokens() never returns
\* tokens whose expiresAt is earlier than the current time; when it reads
\* such tokens it returns null and they are gone from the store; and after
\* a clearTokens() or such an expired read, and until saveTokens is called
\* again, getTokens() returns null.
C24_ExpiredOrClearedReadsNull ==
    [][GetTokensStep =>
          /\ storage'.last.ret # JSNull => ~Expired(storage'.last.ret, storage'.now)
          /\ (storage'.last.read # JSNull /\ Expired(storage'.last.read, storage.now)) =>
                (storage'.last.ret = JSNull /\ storage'.item = JSNull)
          /\ storage.cleared => storage'.last.ret = JSNull]_vars

\* C23: in every request() call, each fetch but the last was answered 401
\* and followed by a refreshToken() that returned true; retryCount has gone
\* down by one for each retry and is never negative, so at most
\* retryCount + 1 fetches are issued; a call that has ended has resolved
\* with the parsed body or rejected with an error; and, fetch, refreshToken
\* and response.json() answering, every call ends.
C23_BoundedRetry ==
    /\ [](\A r \in DOMAIN api :
             LET q == api[r]
             IN  /\ q.fetches <= q.initial + 1
                 /\ q.retryCount >= 0
                 /\ q.fetches > 0 => q.retryCount = q.initial - (q.fetches - 1)
                 /\ \A i \in 1..(q.fetches - 1) :
                       /\ q.statuses[i] = Unauthorized
                       /\ q.refreshes[i] = TRUE
                 /\ q.pc = "done" =>
                       \/ q.outcome = "resolved" /\ q.value = ParsedBody
                       \/ q.outcome = "rejected" /\ q.value.t = "Error")
    /\ []<>(\A r \in DOMAIN api : api[r].pc = "done")

\* C23 witness: a request with retryCount 2 has used both retries and
\* resolved on its third fetch, and another has ended on a 401 after a
\* failed refresh
C23_Witness ==
    \E r, q \in DOMAIN api :
        /\ api[r].initial = 2
        /\ api[r].fetches = 3
        /\ api[r].statuses = <<Unauthorized, Unauthorized, 200>>
        /\ api[r].outcome = "resolved"
        /\ api[q].refreshes = <<FALSE>>
        /\ api[q].fetches = 1
        /\ api[q].outcome = "rejected"
====
